---------------------------- MODULE Spec2Model ----------------------------
(***************************************************************************)
(* A model of zenity-dialog: the argument token (arg.rs), the dialog-kind  *)
(* configurations (dialog/*.rs and the Application enum of dialog.rs), the *)
(* dialog request and its argument vector (dialog.rs) and the mapping of   *)
(* the external tool's exit code and output to an outcome (show).          *)
(*                                                                         *)
(* A Rust String is a sequence of characters, each written as a one-       *)
(* character string; a byte that cannot occur in UTF-8 text is written     *)
(* "xFF".  Option<T> is a sequence of length at most one.                  *)
(***************************************************************************)
EXTENDS Integers, Sequences, FiniteSets

VARIABLES
    pc,                 \* position of the modelled caller
    arg,                \* Option<Arg>: the argument token under construction
    rendered,           \* Option<String>: the last Arg::to_string()
    application,        \* the dialog-kind configuration
    title,              \* ZenityDialog.title: Option<String>
    icon,               \* ZenityDialog.icon: Option<Icon>
    width,              \* ZenityDialog.width: Option<usize>
    height,             \* ZenityDialog.height: Option<usize>
    timeout,            \* ZenityDialog.timeout: Option<Duration>
    extra_button_label, \* ZenityDialog.extra_button_label: Option<String>
    modal_hint,         \* ZenityDialog.modal_hint: Option<String>
    additional_args,    \* ZenityDialog.additional_args: Vec<String>
    argv,               \* Option<Vec<String>>: the rendered argument vector
    chrono,             \* whether the crate is built with feature "chrono"
    response,           \* Option: what Command::output() gave show
    result,             \* Option<crate::Result<ZenityOutput>>: what show returned
    ext_result          \* Option: what the extra-button request's show returned

vars ==
    <<pc, arg, rendered, application, title, icon, width, height, timeout,
      extra_button_label, modal_hint, additional_args, argv, chrono,
      response, result, ext_result>>

argVars == <<arg, rendered>>

requestVars ==
    <<title, icon, width, height, timeout, extra_button_label, modal_hint,
      additional_args>>

showVars == <<response, result, ext_result>>

-----------------------------------------------------------------------------
(* Bounds of the model. *)

MaxNameLen == 5

MaxStdoutLen == 3

MaxExtraArgs == 2

-----------------------------------------------------------------------------
(* Option<T> and String helpers (std). *)

None == <<>>

Some(x) == <<x>>

IsSome(o) == Len(o) = 1

Unwrap(o) == o[1]

BoundedSeq(S, n) == UNION {[1..k -> S] : k \in 0..n}

\* str::starts_with
starts_with(s, p) == Len(s) >= Len(p) /\ SubSeq(s, 1, Len(p)) = p

\* &s[n..]
slice_from(s, n) == SubSeq(s, n + 1, Len(s))

DigitChars == <<"0", "1", "2", "3", "4", "5", "6", "7", "8", "9">>

RECURSIVE fmt_unsigned(_)
\* Display for an unsigned integer: its decimal digits.
fmt_unsigned(n) ==
    IF n < 10 THEN <<DigitChars[n + 1]>>
    ELSE fmt_unsigned(n \div 10) \o <<DigitChars[(n % 10) + 1]>>

\* Display for isize: a minus sign before the digits of a negative number.
fmt_signed(n) == IF n < 0 THEN <<"-">> \o fmt_unsigned(-n) ELSE fmt_unsigned(n)

DashDash == <<"-", "-">>

-----------------------------------------------------------------------------
(* arg.rs: the argument token. *)

\* impl From<&str> / From<String> for Arg
Arg_from_name(n) == [name |-> n, value |-> None]

\* impl From<(&str, &str)> / From<(&str, String)> / From<(String, String)> for Arg
Arg_from_pair(n, v) == [name |-> n, value |-> Some(v)]

\* A slip that forgets to strip the supplied prefix.
Arg_fmt_keep_prefix(a) ==
    IF IsSome(a.value)
    THEN DashDash \o a.name \o <<"=">> \o Unwrap(a.value)
    ELSE DashDash \o a.name

\* impl Display for Arg
Arg_fmt(a) ==
    LET name == IF starts_with(a.name, DashDash)
                THEN slice_from(a.name, 2)
                ELSE a.name
    IN  IF IsSome(a.value)
        THEN DashDash \o name \o <<"=">> \o Unwrap(a.value)
        ELSE DashDash \o name

NameAlphabet == {"-", "f"}

ArgNames == BoundedSeq(NameAlphabet, MaxNameLen)

ArgValues == {<<>>, <<"v">>, <<"-", "-">>}

-----------------------------------------------------------------------------
(* dialog/calendar.rs, dialog/entry.rs, dialog/info.rs, dialog/error.rs:   *)
(* the dialog-kind configurations.                                          *)

\* enum Month
Months ==
    <<"January", "Feburary", "March", "April", "May", "June", "July",
      "August", "September", "October", "November", "December">>

\* A slip that numbers the months from zero.
Month_fmt_zero_based(m) ==
    LET as_int == CHOOSE i \in 1..Len(Months) : Months[i] = m
    IN  fmt_unsigned(as_int - 1)

\* impl Display for Month
Month_fmt(m) ==
    LET as_int == CASE m = "January" -> 1
                    [] m = "Feburary" -> 2
                    [] m = "March" -> 3
                    [] m = "April" -> 4
                    [] m = "May" -> 5
                    [] m = "June" -> 6
                    [] m = "July" -> 7
                    [] m = "August" -> 8
                    [] m = "September" -> 9
                    [] m = "October" -> 10
                    [] m = "November" -> 11
                    [] m = "December" -> 12
    IN  fmt_unsigned(as_int)

\* Calendar::new (Default)
Calendar_new ==
    [type |-> "Calendar", text |-> None, day |-> None, month |-> None,
     year |-> None, format |-> None]

\* Entry::new (Default)
Entry_new ==
    [type |-> "Entry", text |-> None, entry_text |-> None, hide_text |-> FALSE]

\* Info::new (Default)
Info_new ==
    [type |-> "Info", text |-> None, ok_label |-> None, no_wrap |-> FALSE,
     no_markup |-> FALSE, ellipsize |-> FALSE]

\* Error::new (Default)
Error_new ==
    [type |-> "Error", text |-> None, no_wrap |-> FALSE, no_markup |-> FALSE]

\* A slip that pushes the month before the day.
Calendar_to_argv_month_first(self) ==
    <<<<"-", "-", "c", "a", "l", "e", "n", "d", "a", "r">>>>  \* --calendar
        \o (IF IsSome(self.text)  \* --text={text}
            THEN <<<<"-", "-", "t", "e", "x", "t", "=">>
                   \o Unwrap(self.text)>>
            ELSE <<>>)
        \o (IF IsSome(self.month)  \* --month={month}
            THEN <<<<"-", "-", "m", "o", "n", "t", "h", "=">>
                   \o Month_fmt(Unwrap(self.month))>>
            ELSE <<>>)
        \o (IF IsSome(self.day)  \* --day={day}
            THEN <<<<"-", "-", "d", "a", "y", "=">>
                   \o fmt_unsigned(Unwrap(self.day))>>
            ELSE <<>>)
        \o (IF IsSome(self.year)  \* --year={year}
            THEN <<<<"-", "-", "y", "e", "a", "r", "=">>
                   \o fmt_signed(Unwrap(self.year))>>
            ELSE <<>>)
        \o (IF IsSome(self.format)  \* --date-format={format}
            THEN <<<<"-", "-", "d", "a", "t", "e", "-", "f", "o", "r", "m", "a", "t", "=">>
                   \o Unwrap(self.format)>>
            ELSE <<>>)

\* impl ToArgVector for Calendar
Calendar_to_argv(self) ==
    <<<<"-", "-", "c", "a", "l", "e", "n", "d", "a", "r">>>>  \* --calendar
        \o (IF IsSome(self.text)  \* --text={text}
            THEN <<<<"-", "-", "t", "e", "x", "t", "=">>
                   \o Unwrap(self.text)>>
            ELSE <<>>)
        \o (IF IsSome(self.day)  \* --day={day}
            THEN <<<<"-", "-", "d", "a", "y", "=">>
                   \o fmt_unsigned(Unwrap(self.day))>>
            ELSE <<>>)
        \o (IF IsSome(self.month)  \* --month={month}
            THEN <<<<"-", "-", "m", "o", "n", "t", "h", "=">>
                   \o Month_fmt(Unwrap(self.month))>>
            ELSE <<>>)
        \o (IF IsSome(self.year)  \* --year={year}
            THEN <<<<"-", "-", "y", "e", "a", "r", "=">>
                   \o fmt_signed(Unwrap(self.year))>>
            ELSE <<>>)
        \o (IF IsSome(self.format)  \* --date-format={format}
            THEN <<<<"-", "-", "d", "a", "t", "e", "-", "f", "o", "r", "m", "a", "t", "=">>
                   \o Unwrap(self.format)>>
            ELSE <<>>)

\* A slip that pushes the kind flag last instead of first.
Entry_to_argv_flag_last(self) ==
    <<>>
        \o (IF IsSome(self.text)  \* --text={text}
            THEN <<<<"-", "-", "t", "e", "x", "t", "=">>
                   \o Unwrap(self.text)>>
            ELSE <<>>)
        \o (IF IsSome(self.entry_text)  \* --entry-text={entry_text}
            THEN <<<<"-", "-", "e", "n", "t", "r", "y", "-", "t", "e", "x", "t", "=">>
                   \o Unwrap(self.entry_text)>>
            ELSE <<>>)
        \o (IF self.hide_text  \* --hide-text
            THEN <<<<"-", "-", "h", "i", "d", "e", "-", "t", "e", "x", "t">>>>
            ELSE <<>>)
        \o <<<<"-", "-", "e", "n", "t", "r", "y">>>>  \* --entry

\* impl ToArgVector for Entry
Entry_to_argv(self) ==
    <<<<"-", "-", "e", "n", "t", "r", "y">>>>  \* --entry
        \o (IF IsSome(self.text)  \* --text={text}
            THEN <<<<"-", "-", "t", "e", "x", "t", "=">>
                   \o Unwrap(self.text)>>
            ELSE <<>>)
        \o (IF IsSome(self.entry_text)  \* --entry-text={entry_text}
            THEN <<<<"-", "-", "e", "n", "t", "r", "y", "-", "t", "e", "x", "t", "=">>
                   \o Unwrap(self.entry_text)>>
            ELSE <<>>)
        \o (IF self.hide_text  \* --hide-text
            THEN <<<<"-", "-", "h", "i", "d", "e", "-", "t", "e", "x", "t">>>>
            ELSE <<>>)

\* impl ToArgVector for Info
Info_to_argv(self) ==
    <<<<"-", "-", "i", "n", "f", "o">>>>  \* --info
        \o (IF IsSome(self.text)  \* --text={text}
            THEN <<<<"-", "-", "t", "e", "x", "t", "=">>
                   \o Unwrap(self.text)>>
            ELSE <<>>)
        \o (IF IsSome(self.ok_label)  \* --ok-label={ok_label}
            THEN <<<<"-", "-", "o", "k", "-", "l", "a", "b", "e", "l", "=">>
                   \o Unwrap(self.ok_label)>>
            ELSE <<>>)
        \o (IF self.no_wrap  \* --no-wrap
            THEN <<<<"-", "-", "n", "o", "-", "w", "r", "a", "p">>>>
            ELSE <<>>)
        \o (IF self.no_markup  \* --no-markup
            THEN <<<<"-", "-", "n", "o", "-", "m", "a", "r", "k", "u", "p">>>>
            ELSE <<>>)
        \o (IF self.ellipsize  \* --ellipsize
            THEN <<<<"-", "-", "e", "l", "l", "i", "p", "s", "i", "z", "e">>>>
            ELSE <<>>)

\* impl ToArgVector for Error
Error_to_argv(self) ==
    <<<<"-", "-", "e", "r", "r", "o", "r">>>>  \* --error
        \o (IF IsSome(self.text)  \* --text={text}
            THEN <<<<"-", "-", "t", "e", "x", "t", "=">>
                   \o Unwrap(self.text)>>
            ELSE <<>>)
        \o (IF self.no_wrap  \* --no-wrap
            THEN <<<<"-", "-", "n", "o", "-", "w", "r", "a", "p">>>>
            ELSE <<>>)
        \o (IF self.no_markup  \* --no-markup
            THEN <<<<"-", "-", "n", "o", "-", "m", "a", "r", "k", "u", "p">>>>
            ELSE <<>>)

-----------------------------------------------------------------------------
(* dialog.rs: the Application enum with its InfoOptions and CalendarOptions *)
(* payloads.  A variant is a record of type "Application"; the payload's    *)
(* fields are the record's other fields.                                    *)

\* The variants of Application that carry no payload.
UnitVariants ==
    {"Entry", "Error", "FileSelection", "List", "Notification", "Progress",
     "Question", "Warning", "Scale", "TextInfo", "ColorSelection", "Password",
     "Forms"}

\* Application::<unit variant>
Application_unit(v) == [type |-> "Application", variant |-> v]

\* Application::Info(InfoOptions::new())
Application_Info ==
    [type |-> "Application", variant |-> "Info", text |-> None,
     ok_label |-> None, no_wrap |-> FALSE, no_markup |-> FALSE,
     ellipsize |-> FALSE]

\* Application::Calendar(CalendarOptions::new())
Application_Calendar ==
    [type |-> "Application", variant |-> "Calendar", text |-> None,
     day |-> None, month |-> None, year |-> None, format |-> None]

\* InfoOptions::get_argv
InfoOptions_get_argv(self) ==
    <<<<"-", "-", "i", "n", "f", "o">>>>  \* --info
        \o (IF IsSome(self.text)  \* --text={text}
            THEN <<<<"-", "-", "t", "e", "x", "t", "=">>
                   \o Unwrap(self.text)>>
            ELSE <<>>)
        \o (IF IsSome(self.ok_label)  \* --ok-label={ok_label}
            THEN <<<<"-", "-", "o", "k", "-", "l", "a", "b", "e", "l", "=">>
                   \o Unwrap(self.ok_label)>>
            ELSE <<>>)
        \o (IF self.no_wrap  \* --no-wrap
            THEN <<<<"-", "-", "n", "o", "-", "w", "r", "a", "p">>>>
            ELSE <<>>)
        \o (IF self.no_markup  \* --no-markup
            THEN <<<<"-", "-", "n", "o", "-", "m", "a", "r", "k", "u", "p">>>>
            ELSE <<>>)
        \o (IF self.ellipsize  \* --ellipsize
            THEN <<<<"-", "-", "e", "l", "l", "i", "p", "s", "i", "z", "e">>>>
            ELSE <<>>)

\* CalendarOptions::get_argv
CalendarOptions_get_argv(self) ==
    <<<<"-", "-", "c", "a", "l", "e", "n", "d", "a", "r">>>>  \* --calendar
        \o (IF IsSome(self.text)  \* --text={text}
            THEN <<<<"-", "-", "t", "e", "x", "t", "=">>
                   \o Unwrap(self.text)>>
            ELSE <<>>)
        \o (IF IsSome(self.day)  \* --day={day}
            THEN <<<<"-", "-", "d", "a", "y", "=">>
                   \o fmt_unsigned(Unwrap(self.day))>>
            ELSE <<>>)
        \o (IF IsSome(self.month)  \* --month={month}
            THEN <<<<"-", "-", "m", "o", "n", "t", "h", "=">>
                   \o Month_fmt(Unwrap(self.month))>>
            ELSE <<>>)
        \o (IF IsSome(self.year)  \* --year={year}
            THEN <<<<"-", "-", "y", "e", "a", "r", "=">>
                   \o fmt_signed(Unwrap(self.year))>>
            ELSE <<>>)
        \o (IF IsSome(self.format)  \* --date-format={format}
            THEN <<<<"-", "-", "d", "a", "t", "e", "-", "f", "o", "r", "m", "a", "t", "=">>
                   \o Unwrap(self.format)>>
            ELSE <<>>)

\* Application::get_argv
Application_get_argv(self) ==
    CASE self.variant = "Calendar" -> CalendarOptions_get_argv(self)
      [] self.variant = "Entry" -> <<<<"-", "-", "e", "n", "t", "r", "y">>>>
      [] self.variant = "Error" -> <<<<"-", "-", "e", "r", "r", "o", "r">>>>
      [] self.variant = "Info" -> InfoOptions_get_argv(self)
      [] self.variant = "FileSelection" -> <<<<"-", "-", "f", "i", "l", "e", "-", "s", "e", "l", "e", "c", "t", "i", "o", "n">>>>
      [] self.variant = "List" -> <<<<"-", "-", "l", "i", "s", "t">>>>
      [] self.variant = "Notification" -> <<<<"-", "-", "n", "o", "t", "i", "f", "i", "c", "a", "t", "i", "o", "n">>>>
      [] self.variant = "Progress" -> <<<<"-", "-", "p", "r", "o", "g", "r", "e", "s", "s">>>>
      [] self.variant = "Question" -> <<<<"-", "-", "q", "u", "e", "s", "t", "i", "o", "n">>>>
      [] self.variant = "Warning" -> <<<<"-", "-", "w", "a", "r", "n", "i", "n", "g">>>>
      [] self.variant = "Scale" -> <<<<"-", "-", "s", "c", "a", "l", "e">>>>
      [] self.variant = "TextInfo" -> <<<<"-", "-", "t", "e", "x", "t", "-", "i", "n", "f", "o">>>>
      [] self.variant = "ColorSelection" -> <<<<"-", "-", "c", "o", "l", "o", "r", "-", "s", "e", "l", "e", "c", "t", "i", "o", "n">>>>
      [] self.variant = "Password" -> <<<<"-", "-", "p", "a", "s", "s", "w", "o", "r", "d">>>>
      [] self.variant = "Forms" -> <<<<"-", "-", "f", "o", "r", "m", "s">>>>

\* The kind tokens of a configuration: ToArgVector::to_argv of a
\* configuration struct, Application::get_argv of the enum.
to_argv(self) ==
    CASE self.type = "Calendar" -> Calendar_to_argv(self)
      [] self.type = "Entry" -> Entry_to_argv(self)
      [] self.type = "Info" -> Info_to_argv(self)
      [] self.type = "Error" -> Error_to_argv(self)
      [] self.type = "Application" -> Application_get_argv(self)

-----------------------------------------------------------------------------
(* Values the model draws the callers' inputs from. *)

TextSamples == {<<"H", "i">>, <<>>}

DaySamples == {1, 31}

YearSamples == {-1, 2024}

FormatSamples == {<<"%", "d">>}

\* The values of the variables a specification does not use.
IdleArg == arg = None /\ rendered = None

IdleRequest ==
    /\ title = None
    /\ icon = None
    /\ width = None
    /\ height = None
    /\ timeout = None
    /\ extra_button_label = None
    /\ modal_hint = None
    /\ additional_args = <<>>

IdleShow == response = None /\ result = None /\ ext_result = None

-----------------------------------------------------------------------------
(* SpecArg: an argument token is constructed and rendered. *)

InitArg ==
    /\ pc = "start"
    /\ application = Info_new
    /\ argv = None
    /\ chrono = FALSE
    /\ IdleArg
    /\ IdleRequest
    /\ IdleShow

\* Arg::from(name)
ArgFromName ==
    /\ pc = "start"
    /\ \E n \in ArgNames : arg' = Some(Arg_from_name(n))
    /\ pc' = "built"
    /\ UNCHANGED <<rendered, application, requestVars, argv, chrono, showVars>>

\* Arg::from((name, value))
ArgFromPair ==
    /\ pc = "start"
    /\ \E n \in ArgNames, v \in ArgValues : arg' = Some(Arg_from_pair(n, v))
    /\ pc' = "built"
    /\ UNCHANGED <<rendered, application, requestVars, argv, chrono, showVars>>

\* arg.to_string()
ArgToString ==
    /\ pc = "built"
    /\ rendered' = Some(Arg_fmt(Unwrap(arg)))
    /\ pc' = "rendered"
    /\ UNCHANGED <<arg, application, requestVars, argv, chrono, showVars>>

NextArg == ArgFromName \/ ArgFromPair \/ ArgToString

SpecArg == InitArg /\ [][NextArg]_vars

-----------------------------------------------------------------------------
(* SpecKind: a dialog-kind configuration is built by its setters, called in *)
(* any order and any number of times, and then rendered to its tokens.      *)

NewKinds ==
    {Calendar_new, Entry_new, Info_new, Error_new, Application_Info,
     Application_Calendar} \cup {Application_unit(v) : v \in UnitVariants}

InitKind ==
    /\ pc = "configure"
    /\ application \in NewKinds
    /\ argv = None
    /\ chrono \in BOOLEAN
    /\ IdleArg
    /\ IdleRequest
    /\ IdleShow

KindUnchanged == UNCHANGED <<pc, argVars, requestVars, argv, chrono, showVars>>

\* Calendar, Entry, Info, Error, InfoOptions, CalendarOptions: with_text
with_text ==
    /\ pc = "configure"
    /\ "text" \in DOMAIN application
    /\ \E text \in TextSamples :
         application' = [application EXCEPT !.text = Some(text)]
    /\ KindUnchanged

\* Calendar, CalendarOptions: with_day
with_day ==
    /\ pc = "configure"
    /\ "day" \in DOMAIN application
    /\ \E day \in DaySamples :
         application' = [application EXCEPT !.day = Some(day)]
    /\ KindUnchanged

\* Calendar, CalendarOptions: with_month
with_month ==
    /\ pc = "configure"
    /\ "month" \in DOMAIN application
    /\ \E i \in 1..Len(Months) :
         application' = [application EXCEPT !.month = Some(Months[i])]
    /\ KindUnchanged

\* Calendar, CalendarOptions: with_year
with_year ==
    /\ pc = "configure"
    /\ "year" \in DOMAIN application
    /\ \E year \in YearSamples :
         application' = [application EXCEPT !.year = Some(year)]
    /\ KindUnchanged

\* Calendar (only when built without chrono), CalendarOptions: with_format
with_format ==
    /\ pc = "configure"
    /\ "format" \in DOMAIN application
    /\ application.type = "Calendar" => ~chrono
    /\ \E format \in FormatSamples :
         application' = [application EXCEPT !.format = Some(format)]
    /\ KindUnchanged

\* Entry::with_entry_text
with_entry_text ==
    /\ pc = "configure"
    /\ "entry_text" \in DOMAIN application
    /\ \E entry_text \in TextSamples :
         application' = [application EXCEPT !.entry_text = Some(entry_text)]
    /\ KindUnchanged

\* Entry::set_hide_text
set_hide_text ==
    /\ pc = "configure"
    /\ "hide_text" \in DOMAIN application
    /\ application' = [application EXCEPT !.hide_text = TRUE]
    /\ KindUnchanged

\* Info, InfoOptions: with_ok_label
with_ok_label ==
    /\ pc = "configure"
    /\ "ok_label" \in DOMAIN application
    /\ \E ok_label \in TextSamples :
         application' = [application EXCEPT !.ok_label = Some(ok_label)]
    /\ KindUnchanged

\* Info, Error, InfoOptions: set_no_wrap
set_no_wrap ==
    /\ pc = "configure"
    /\ "no_wrap" \in DOMAIN application
    /\ application' = [application EXCEPT !.no_wrap = TRUE]
    /\ KindUnchanged

\* Info, Error, InfoOptions: set_no_markup
set_no_markup ==
    /\ pc = "configure"
    /\ "no_markup" \in DOMAIN application
    /\ application' = [application EXCEPT !.no_markup = TRUE]
    /\ KindUnchanged

\* Info, InfoOptions: set_ellipsize
set_ellipsize ==
    /\ pc = "configure"
    /\ "ellipsize" \in DOMAIN application
    /\ application' = [application EXCEPT !.ellipsize = TRUE]
    /\ KindUnchanged

\* application.to_argv() / application.get_argv()
RenderKind ==
    /\ pc = "configure"
    /\ argv' = Some(to_argv(application))
    /\ pc' = "rendered"
    /\ UNCHANGED <<application, argVars, requestVars, chrono, showVars>>

NextKind ==
    \/ with_text
    \/ with_day
    \/ with_month
    \/ with_year
    \/ with_format
    \/ with_entry_text
    \/ set_hide_text
    \/ with_ok_label
    \/ set_no_wrap
    \/ set_no_markup
    \/ set_ellipsize
    \/ RenderKind

SpecKind == InitKind /\ [][NextKind]_vars

-----------------------------------------------------------------------------
(* Properties of the argument token (SpecArg). *)

\* Whether a rendered token carries the "--" prefix twice.
PrefixDoubled(r) == starts_with(r, <<"-", "-", "-", "-">>)

\* C6, as first stated: for every argument token, whatever its name (also a
\* name that starts with "--" once or several times, such as "----foo") and
\* with or without a value, the rendered string starts with exactly one "--"
\* prefix: the prefix is never doubled.
C6_NeverDoubled ==
    rendered # None =>
        /\ starts_with(Unwrap(rendered), DashDash)
        /\ ~PrefixDoubled(Unwrap(rendered))

\* C6, amended: the rendered string is "--", then the name without ONE
\* leading "--" (if it has one), then "=" and the value if there is one.  So
\* the prefix is not doubled for any name that starts with at most one "--",
\* while a name that starts with "--" twice keeps the second one: "----f"
\* renders as "----f".
C6_OnePrefixStripped ==
    rendered # None =>
        LET a == Unwrap(arg)
            r == Unwrap(rendered)
            stripped == IF starts_with(a.name, DashDash) THEN 2 ELSE 0
            tail == IF IsSome(a.value) THEN <<"=">> \o Unwrap(a.value) ELSE <<>>
        IN  /\ starts_with(r, DashDash)
            /\ Len(r) = 2 + (Len(a.name) - stripped) + Len(tail)
            /\ SubSeq(r, 3, Len(r) - Len(tail))
                   = SubSeq(a.name, stripped + 1, Len(a.name))
            /\ SubSeq(r, Len(r) - Len(tail) + 1, Len(r)) = tail
            /\ PrefixDoubled(r) <=> starts_with(a.name, <<"-", "-", "-", "-">>)

\* C6 witness: a name given with its "--" and a value has been rendered.
C6_Witness ==
    /\ pc = "rendered"
    /\ arg = Some([name |-> <<"-", "-", "f">>, value |-> Some(<<"v">>)])
    /\ rendered = Some(<<"-", "-", "f", "=", "v">>)

-----------------------------------------------------------------------------
(* Properties of the dialog-kind configurations (SpecKind). *)

\* The name of a configuration's dialog kind.
KindOf(app) == IF app.type = "Application" THEN app.variant ELSE app.type

\* The fixed flag of each dialog kind.
KindFlag(kind) ==
    CASE kind = "Info" -> <<"-", "-", "i", "n", "f", "o">>
      [] kind = "Calendar" -> <<"-", "-", "c", "a", "l", "e", "n", "d", "a", "r">>
      [] kind = "Entry" -> <<"-", "-", "e", "n", "t", "r", "y">>
      [] kind = "Error" -> <<"-", "-", "e", "r", "r", "o", "r">>
      [] kind = "FileSelection" -> <<"-", "-", "f", "i", "l", "e", "-", "s", "e", "l", "e", "c", "t", "i", "o", "n">>
      [] kind = "List" -> <<"-", "-", "l", "i", "s", "t">>
      [] kind = "Notification" -> <<"-", "-", "n", "o", "t", "i", "f", "i", "c", "a", "t", "i", "o", "n">>
      [] kind = "Progress" -> <<"-", "-", "p", "r", "o", "g", "r", "e", "s", "s">>
      [] kind = "Question" -> <<"-", "-", "q", "u", "e", "s", "t", "i", "o", "n">>
      [] kind = "Warning" -> <<"-", "-", "w", "a", "r", "n", "i", "n", "g">>
      [] kind = "Scale" -> <<"-", "-", "s", "c", "a", "l", "e">>
      [] kind = "TextInfo" -> <<"-", "-", "t", "e", "x", "t", "-", "i", "n", "f", "o">>
      [] kind = "ColorSelection" -> <<"-", "-", "c", "o", "l", "o", "r", "-", "s", "e", "l", "e", "c", "t", "i", "o", "n">>
      [] kind = "Password" -> <<"-", "-", "p", "a", "s", "s", "w", "o", "r", "d">>
      [] kind = "Forms" -> <<"-", "-", "f", "o", "r", "m", "s">>

\* C8: for every dialog kind and after any sequence of setter calls, the
\* rendered token list is non-empty, its first token is the kind's fixed flag
\* and that flag occurs exactly once among the kind's tokens.
C8_KindFlagFirstOnce ==
    (pc = "rendered" /\ argv # None) =>
        LET a == Unwrap(argv)
            flag == KindFlag(KindOf(application))
        IN  /\ Len(a) >= 1
            /\ a[1] = flag
            /\ Cardinality({i \in 1..Len(a) : a[i] = flag}) = 1

\* C8 witness: an entry configuration with a body text and the hide-text
\* flag has been rendered to three tokens.
C8_Witness ==
    /\ pc = "rendered"
    /\ application.type = "Entry"
    /\ IsSome(application.text)
    /\ application.hide_text
    /\ argv # None
    /\ Len(Unwrap(argv)) = 3

\* The fields of each kind, in the kind's fixed order.
FieldOrder(kind) ==
    CASE kind = "Calendar" -> <<"text", "day", "month", "year", "format">>
      [] kind = "Entry" -> <<"text", "entry_text", "hide_text">>
      [] kind = "Info" ->
             <<"text", "ok_label", "no_wrap", "no_markup", "ellipsize">>
      [] kind = "Error" -> <<"text", "no_wrap", "no_markup">>
      [] OTHER -> <<>>

BoolFields == {"hide_text", "no_wrap", "no_markup", "ellipsize"}

\* The fields a configuration has: an Application::Entry or ::Error of the
\* enum carries none.
FieldsOf(app) ==
    IF "text" \in DOMAIN app THEN FieldOrder(KindOf(app)) ELSE <<>>

IsSet(app, f) == IF f \in BoolFields THEN app[f] ELSE IsSome(app[f])

\* Whether token t is the token of field f: the flag of a boolean field, the
\* option name and "=" before the value of an optional one.
IsTokenOf(t, f) ==
    CASE f = "text" -> starts_with(t, <<"-", "-", "t", "e", "x", "t", "=">>)
      [] f = "day" -> starts_with(t, <<"-", "-", "d", "a", "y", "=">>)
      [] f = "month" -> starts_with(t, <<"-", "-", "m", "o", "n", "t", "h", "=">>)
      [] f = "year" -> starts_with(t, <<"-", "-", "y", "e", "a", "r", "=">>)
      [] f = "format" -> starts_with(t, <<"-", "-", "d", "a", "t", "e", "-", "f", "o", "r", "m", "a", "t", "=">>)
      [] f = "entry_text" -> starts_with(t, <<"-", "-", "e", "n", "t", "r", "y", "-", "t", "e", "x", "t", "=">>)
      [] f = "ok_label" -> starts_with(t, <<"-", "-", "o", "k", "-", "l", "a", "b", "e", "l", "=">>)
      [] f = "hide_text" -> t = <<"-", "-", "h", "i", "d", "e", "-", "t", "e", "x", "t">>
      [] f = "no_wrap" -> t = <<"-", "-", "n", "o", "-", "w", "r", "a", "p">>
      [] f = "no_markup" -> t = <<"-", "-", "n", "o", "-", "m", "a", "r", "k", "u", "p">>
      [] f = "ellipsize" -> t = <<"-", "-", "e", "l", "l", "i", "p", "s", "i", "z", "e">>

\* The positions of the tokens of field f in token list a.
PositionsOf(a, f) == {i \in 1..Len(a) : IsTokenOf(a[i], f)}

\* C9: in every configuration reachable by setter calls in any order, an
\* unset field contributes no token, a set field exactly one, nothing else
\* follows the kind flag, and the tokens of the set fields stand in the
\* kind's fixed field order.
C9_FieldTokens ==
    (pc = "rendered" /\ argv # None) =>
        LET a == Unwrap(argv)
            F == FieldsOf(application)
            set == {i \in 1..Len(F) : IsSet(application, F[i])}
        IN  /\ Len(a) = 1 + Cardinality(set)
            /\ \A i \in 1..Len(F) :
                 Cardinality(PositionsOf(a, F[i])) = IF i \in set THEN 1 ELSE 0
            /\ \A i, j \in set :
                 i < j =>
                   \A p \in PositionsOf(a, F[i]), q \in PositionsOf(a, F[j]) :
                     p < q

\* C9 witness: a calendar configuration with the year, the day and the month
\* set, and neither text nor format, has been rendered.
C9_Witness ==
    /\ pc = "rendered"
    /\ application.type = "Calendar"
    /\ ~IsSome(application.text)
    /\ IsSome(application.day)
    /\ IsSome(application.month)
    /\ IsSome(application.year)
    /\ ~IsSome(application.format)
    /\ argv # None
    /\ Len(Unwrap(argv)) = 4

-----------------------------------------------------------------------------
(* dialog.rs: the dialog request (ZenityDialog) and its argument vector. *)

\* enum Icon: the four standard icons
StandardIcons == {"Error", "Info", "Question", "Warning"}

\* Icon::IconPath(path): on Linux a PathBuf holds arbitrary bytes.
IconPath(path) == [tag |-> "IconPath", path |-> path]

\* Path::to_str: None unless the path is valid UTF-8.
Path_to_str(path) ==
    IF \E i \in 1..Len(path) : path[i] = "xFF" THEN None ELSE Some(path)

\* impl Display for Icon: Ok(text), or Err (None) for a path that is not
\* valid UTF-8.
Icon_fmt(self) ==
    CASE self.tag = "Error" -> Some(<<"e", "r", "r", "o", "r">>)
      [] self.tag = "Info" -> Some(<<"i", "n", "f", "o">>)
      [] self.tag = "Question" -> Some(<<"q", "u", "e", "s", "t", "i", "o", "n">>)
      [] self.tag = "Warning" -> Some(<<"w", "a", "r", "n", "i", "n", "g">>)
      [] self.tag = "IconPath" -> Path_to_str(self.path)

\* A slip that rounds a duration to the nearest second.
Duration_as_secs_rounded(d) ==
    IF d.nanos >= 500000000 THEN d.secs + 1 ELSE d.secs

\* Duration::as_secs: the whole seconds of a duration.
Duration_as_secs(d) == d.secs

\* The request the variables hold.
Self ==
    [application |-> application, title |-> title, icon |-> icon,
     width |-> width, height |-> height, timeout |-> timeout,
     extra_button_label |-> extra_button_label, modal_hint |-> modal_hint,
     additional_args |-> additional_args]

\* A slip that appends the free-form tokens before the shared options.
ZenityDialog_get_argv_extras_first(self) ==
    to_argv(self.application)
        \o self.additional_args
        \o (IF IsSome(self.title)  \* --title={title}
            THEN <<<<"-", "-", "t", "i", "t", "l", "e", "=">>
                   \o Unwrap(self.title)>>
            ELSE <<>>)
        \o (IF IsSome(self.icon)  \* --icon-name={icon}
            THEN <<<<"-", "-", "i", "c", "o", "n", "-", "n", "a", "m", "e", "=">>
                   \o Unwrap(Icon_fmt(Unwrap(self.icon)))>>
            ELSE <<>>)
        \o (IF IsSome(self.width)  \* --width={width}
            THEN <<<<"-", "-", "w", "i", "d", "t", "h", "=">>
                   \o fmt_unsigned(Unwrap(self.width))>>
            ELSE <<>>)
        \o (IF IsSome(self.height)  \* --height={height}
            THEN <<<<"-", "-", "h", "e", "i", "g", "h", "t", "=">>
                   \o fmt_unsigned(Unwrap(self.height))>>
            ELSE <<>>)
        \o (IF IsSome(self.timeout)  \* --timeout={timeout}
            THEN <<<<"-", "-", "t", "i", "m", "e", "o", "u", "t", "=">>
                   \o fmt_unsigned(Duration_as_secs(Unwrap(self.timeout)))>>
            ELSE <<>>)
        \o (IF IsSome(self.extra_button_label)  \* --extra-button={extra_button_label}
            THEN <<<<"-", "-", "e", "x", "t", "r", "a", "-", "b", "u", "t", "t", "o", "n", "=">>
                   \o Unwrap(self.extra_button_label)>>
            ELSE <<>>)
        \o (IF IsSome(self.modal_hint)  \* --modal={modal_hint}
            THEN <<<<"-", "-", "m", "o", "d", "a", "l", "=">>
                   \o Unwrap(self.modal_hint)>>
            ELSE <<>>)

\* ZenityDialog::get_argv, for a request whose icon (if any) can be
\* formatted; format! panics on an icon path that is not valid UTF-8.
ZenityDialog_get_argv(self) ==
    to_argv(self.application)
        \o (IF IsSome(self.title)  \* --title={title}
            THEN <<<<"-", "-", "t", "i", "t", "l", "e", "=">>
                   \o Unwrap(self.title)>>
            ELSE <<>>)
        \o (IF IsSome(self.icon)  \* --icon-name={icon}
            THEN <<<<"-", "-", "i", "c", "o", "n", "-", "n", "a", "m", "e", "=">>
                   \o Unwrap(Icon_fmt(Unwrap(self.icon)))>>
            ELSE <<>>)
        \o (IF IsSome(self.width)  \* --width={width}
            THEN <<<<"-", "-", "w", "i", "d", "t", "h", "=">>
                   \o fmt_unsigned(Unwrap(self.width))>>
            ELSE <<>>)
        \o (IF IsSome(self.height)  \* --height={height}
            THEN <<<<"-", "-", "h", "e", "i", "g", "h", "t", "=">>
                   \o fmt_unsigned(Unwrap(self.height))>>
            ELSE <<>>)
        \o (IF IsSome(self.timeout)  \* --timeout={timeout}
            THEN <<<<"-", "-", "t", "i", "m", "e", "o", "u", "t", "=">>
                   \o fmt_unsigned(Duration_as_secs(Unwrap(self.timeout)))>>
            ELSE <<>>)
        \o (IF IsSome(self.extra_button_label)  \* --extra-button={extra_button_label}
            THEN <<<<"-", "-", "e", "x", "t", "r", "a", "-", "b", "u", "t", "t", "o", "n", "=">>
                   \o Unwrap(self.extra_button_label)>>
            ELSE <<>>)
        \o (IF IsSome(self.modal_hint)  \* --modal={modal_hint}
            THEN <<<<"-", "-", "m", "o", "d", "a", "l", "=">>
                   \o Unwrap(self.modal_hint)>>
            ELSE <<>>)
        \o self.additional_args

\* Whether get_argv panics: the icon's Display implementation fails.
get_argv_panics(self) ==
    IsSome(self.icon) /\ Icon_fmt(Unwrap(self.icon)) = None

TitleSamples == {<<"T">>}

IconSamples ==
    {[tag |-> t] : t \in StandardIcons}
        \cup {IconPath(<<"/", "i", ".", "p", "n", "g">>), IconPath(<<"/", "xFF">>)}

SizeSamples == {640}

DurationSamples ==
    {[secs |-> 0, nanos |-> 0], [secs |-> 0, nanos |-> 1],
     [secs |-> 0, nanos |-> 999999999],
     [secs |-> 1, nanos |-> 500000000], [secs |-> 90, nanos |-> 0]}

LabelSamples == {<<"M", "a", "y", "b", "e">>, <<"M">>}

HintSamples == {<<"h", "i", "n", "t">>}

\* The free-form arguments callers pass: a bare name, the same name with its
\* "--", a name with a value.
ArgSamples ==
    {Arg_from_name(<<"f", "o", "o">>), Arg_from_name(<<"-", "-", "f", "o", "o">>),
     Arg_from_pair(<<"k">>, <<"v">>)}

\* The configurations a request is built around.
RequestKinds ==
    {Application_unit("Question"),
     [Application_Info EXCEPT !.text = Some(<<"H", "i">>)],
     [Entry_new EXCEPT !.hide_text = TRUE]}

\* ZenityDialog::new(application)
InitRequest ==
    /\ pc = "building"
    /\ application \in RequestKinds
    /\ argv = None
    /\ chrono = FALSE
    /\ IdleArg
    /\ IdleRequest
    /\ IdleShow

with_title ==
    /\ pc = "building"
    /\ \E t \in TitleSamples : title' = Some(t)
    /\ UNCHANGED <<pc, argVars, application, icon, width, height, timeout,
                   extra_button_label, modal_hint, additional_args, argv,
                   chrono, showVars>>

with_icon ==
    /\ pc = "building"
    /\ \E i \in IconSamples : icon' = Some(i)
    /\ UNCHANGED <<pc, argVars, application, title, width, height, timeout,
                   extra_button_label, modal_hint, additional_args, argv,
                   chrono, showVars>>

with_width ==
    /\ pc = "building"
    /\ \E w \in SizeSamples : width' = Some(w)
    /\ UNCHANGED <<pc, argVars, application, title, icon, height, timeout,
                   extra_button_label, modal_hint, additional_args, argv,
                   chrono, showVars>>

with_height ==
    /\ pc = "building"
    /\ \E h \in SizeSamples : height' = Some(h)
    /\ UNCHANGED <<pc, argVars, application, title, icon, width, timeout,
                   extra_button_label, modal_hint, additional_args, argv,
                   chrono, showVars>>

with_timeout ==
    /\ pc = "building"
    /\ \E d \in DurationSamples : timeout' = Some(d)
    /\ UNCHANGED <<pc, argVars, application, title, icon, width, height,
                   extra_button_label, modal_hint, additional_args, argv,
                   chrono, showVars>>

with_extra_button ==
    /\ pc = "building"
    /\ \E l \in LabelSamples : extra_button_label' = Some(l)
    /\ UNCHANGED <<pc, argVars, application, title, icon, width, height,
                   timeout, modal_hint, additional_args, argv, chrono,
                   showVars>>

with_modal_hint ==
    /\ pc = "building"
    /\ \E h \in HintSamples : modal_hint' = Some(h)
    /\ UNCHANGED <<pc, argVars, application, title, icon, width, height,
                   timeout, extra_button_label, additional_args, argv, chrono,
                   showVars>>

\* A slip that puts the new token in front of the list.
push_additional_arg_front(args, a) == <<Arg_fmt(a)>> \o args

\* The list after with_additional_arg(a).
push_additional_arg(args, a) == Append(args, Arg_fmt(a))

\* The list after with_additional_args(as).
append_additional_args(args, as) ==
    args \o [i \in 1..Len(as) |-> Arg_fmt(as[i])]

with_additional_arg ==
    /\ pc = "building"
    /\ Len(additional_args) < MaxExtraArgs
    /\ \E a \in ArgSamples :
         additional_args' = push_additional_arg(additional_args, a)
    /\ UNCHANGED <<pc, argVars, application, title, icon, width, height,
                   timeout, extra_button_label, modal_hint, argv, chrono,
                   showVars>>

with_additional_args ==
    /\ pc = "building"
    /\ \E as \in BoundedSeq(ArgSamples, MaxExtraArgs - Len(additional_args)) :
         additional_args' = append_additional_args(additional_args, as)
    /\ UNCHANGED <<pc, argVars, application, title, icon, width, height,
                   timeout, extra_button_label, modal_hint, argv, chrono,
                   showVars>>

\* self.get_argv(): self is consumed; the request variables keep the value
\* it had.
get_argv ==
    /\ pc = "building"
    /\ IF get_argv_panics(Self)
       THEN argv' = None /\ pc' = "panicked"
       ELSE argv' = Some(ZenityDialog_get_argv(Self)) /\ pc' = "rendered"
    /\ UNCHANGED <<argVars, application, requestVars, chrono, showVars>>

NextRequest ==
    \/ with_title
    \/ with_icon
    \/ with_width
    \/ with_height
    \/ with_timeout
    \/ with_extra_button
    \/ with_modal_hint
    \/ with_additional_arg
    \/ with_additional_args
    \/ get_argv

SpecRequest == InitRequest /\ [][NextRequest]_vars

-----------------------------------------------------------------------------
(* Properties of the request's argument vector (SpecRequest). *)

\* Whether the request has shared option f set.
SharedIsSet(f) == IsSome(Self[f])

\* Whether token t is the token of shared option f.
IsSharedTokenOf(t, f) ==
    CASE f = "title" -> t = <<"-", "-", "t", "i", "t", "l", "e", "=">> \o Unwrap(title)
      [] f = "icon" -> starts_with(t, <<"-", "-", "i", "c", "o", "n", "-", "n", "a", "m", "e", "=">>)
      [] f = "width" -> starts_with(t, <<"-", "-", "w", "i", "d", "t", "h", "=">>)
      [] f = "height" -> starts_with(t, <<"-", "-", "h", "e", "i", "g", "h", "t", "=">>)
      [] f = "timeout" -> starts_with(t, <<"-", "-", "t", "i", "m", "e", "o", "u", "t", "=">>)
      [] f = "extra_button_label" ->
             t = <<"-", "-", "e", "x", "t", "r", "a", "-", "b", "u", "t", "t", "o", "n", "=">> \o Unwrap(extra_button_label)
      [] f = "modal_hint" -> t = <<"-", "-", "m", "o", "d", "a", "l", "=">> \o Unwrap(modal_hint)

\* The argument vector a is: the kind tokens, then one token for each set
\* option of `order`, in that order, then the free-form tokens in the order
\* they were added, and nothing else.
ArgvLaidOut(a, order) ==
    LET kind == to_argv(application)
        k == Len(kind)
        set == SelectSeq(order, SharedIsSet)
        n == Len(set)
    IN  /\ Len(a) = k + n + Len(additional_args)
        /\ SubSeq(a, 1, k) = kind
        /\ \A i \in 1..n : IsSharedTokenOf(a[k + i], set[i])
        /\ SubSeq(a, k + n + 1, Len(a)) = additional_args

\* C7, as first stated: the argument vector is the kind tokens, then the
\* tokens of title, icon, width, height, timeout and modal hint (each only
\* if set), then the free-form tokens in call order, with no other token
\* between or before the shared-option tokens.
C7_SixSharedOptions ==
    (pc = "rendered" /\ argv # None) =>
        ArgvLaidOut(Unwrap(argv),
                    <<"title", "icon", "width", "height", "timeout",
                      "modal_hint">>)

\* C7, amended: the argument vector is the kind tokens, then the tokens of
\* title, icon, width, height, timeout, extra button and modal hint (each
\* only if set, in that order: the --extra-button token stands between the
\* timeout and the modal hint), then the free-form tokens in call order.
C7_SevenSharedOptions ==
    (pc = "rendered" /\ argv # None) =>
        ArgvLaidOut(Unwrap(argv),
                    <<"title", "icon", "width", "height", "timeout",
                      "extra_button_label", "modal_hint">>)

\* C7 witness: a request with a title, a timeout, an extra button, a modal
\* hint and two free-form arguments has been rendered.
C7_Witness ==
    /\ pc = "rendered"
    /\ IsSome(title)
    /\ ~IsSome(icon)
    /\ IsSome(timeout)
    /\ IsSome(extra_button_label)
    /\ IsSome(modal_hint)
    /\ additional_args = <<<<"-", "-", "k", "=", "v">>, <<"-", "-", "f", "o", "o">>>>
    /\ argv # None
    /\ Len(Unwrap(argv)) = Len(to_argv(application)) + 6

-----------------------------------------------------------------------------
(* The output parsers of the dialog kinds (ZenityApplication::parse).  A    *)
(* parser returns Ok(value) or Err; the value is a String or a NaiveDate.   *)

ParseOk(ty, v) == [ok |-> TRUE, type |-> ty, value |-> v]

ParseErr == [ok |-> FALSE, error |-> "ParseResultFailure"]

Whitespace == {" ", "\n", "\t", "\r"}

RECURSIVE trim_start(_)
\* str::trim_start
trim_start(s) ==
    IF s # <<>> /\ Head(s) \in Whitespace THEN trim_start(Tail(s)) ELSE s

RECURSIVE trim_end(_)
\* str::trim_end
trim_end(s) ==
    IF s # <<>> /\ s[Len(s)] \in Whitespace
    THEN trim_end(SubSeq(s, 1, Len(s) - 1))
    ELSE s

\* str::trim
trim(s) == trim_end(trim_start(s))

\* The value of a decimal digit, or -1 for any other character.
DigitValue(c) ==
    IF \E d \in 0..9 : DigitChars[d + 1] = c
    THEN CHOOSE d \in 0..9 : DigitChars[d + 1] = c
    ELSE -1

\* The number of days of month m in year y.
DaysInMonth(m, y) ==
    IF m = 2
    THEN IF y % 4 = 0 /\ (y % 100 # 0 \/ y % 400 = 0) THEN 29 ELSE 28
    ELSE IF m \in {4, 6, 9, 11} THEN 30 ELSE 31

\* NaiveDate::parse_from_str(s, "%d/%m/%y") on a text of the form dd/mm/yy:
\* the date, or an error if the text has another form or names no date.
NaiveDate_parse_from_str(s) ==
    IF Len(s) # 8 \/ s[3] # "/" \/ s[6] # "/"
          \/ \E i \in {1, 2, 4, 5, 7, 8} : DigitValue(s[i]) < 0
    THEN ParseErr
    ELSE LET d == 10 * DigitValue(s[1]) + DigitValue(s[2])
             m == 10 * DigitValue(s[4]) + DigitValue(s[5])
             yy == 10 * DigitValue(s[7]) + DigitValue(s[8])
             y == IF yy < 69 THEN 2000 + yy ELSE 1900 + yy
         IN  IF m \in 1..12 /\ d \in 1..DaysInMonth(m, y)
             THEN ParseOk("NaiveDate", [year |-> y, month |-> m, day |-> d])
             ELSE ParseErr

\* Calendar::parse, for a configuration whose format is not set (with_format
\* does not exist in a build with chrono).
Calendar_parse(self, stdout) ==
    IF chrono
    THEN NaiveDate_parse_from_str(trim(stdout))
    ELSE ParseOk("String", stdout)

\* Entry::parse
Entry_parse(self, stdout) == ParseOk("String", stdout)

\* Info::parse
Info_parse(self, stdout) == ParseOk("String", stdout)

\* Error::parse
Error_parse(self, stdout) == ParseOk("String", stdout)

\* ZenityApplication::parse of a configuration struct.
parse(self, stdout) ==
    CASE self.type = "Calendar" -> Calendar_parse(self, stdout)
      [] self.type = "Entry" -> Entry_parse(self, stdout)
      [] self.type = "Info" -> Info_parse(self, stdout)
      [] self.type = "Error" -> Error_parse(self, stdout)

-----------------------------------------------------------------------------
(* dialog.rs: ZenityDialog::show. *)

SUCCESS_CODE == 0

ERROR_CODE_1 == 256

ERROR_CODE_2 == 1

\* String::from_utf8: Some(text), or None for bytes that are not UTF-8.
String_from_utf8(bytes) ==
    IF \E i \in 1..Len(bytes) : bytes[i] = "xFF" THEN None ELSE Some(bytes)

\* crate::Result: Ok(output) and Err(error)
Ok(output) == [ok |-> TRUE, output |-> output]

Err(error) == [ok |-> FALSE, error |-> error]

\* A slip that maps every spawn failure to the unexpected-IO error.
spawn_map_err_all_unexpected(kind) ==
    [variant |-> "UnexpectedIoError", source |-> kind]

\* The map_err closure of show: the error for a failure to spawn the tool.
spawn_map_err(kind) ==
    IF kind = "NotFound"
    THEN [variant |-> "ZenityNotInstalled", source |-> kind]
    ELSE [variant |-> "UnexpectedIoError", source |-> kind]

\* A slip that recognises 256 alone as the rejection code.
classify_only_256(stdout, code, stderr) ==
    IF stdout = <<>> /\ code = SUCCESS_CODE
    THEN [variant |-> "Affirmed"]
    ELSE IF stdout # <<>> /\ code = SUCCESS_CODE
    THEN [variant |-> "AffirmedWithContent", content |-> stdout]
    ELSE IF stdout = <<>> /\ code = ERROR_CODE_1
    THEN [variant |-> "Rejected"]
    ELSE IF stdout # <<>> /\ code = ERROR_CODE_1
    THEN [variant |-> "RejectedWithContent", content |-> stdout]
    ELSE [variant |-> "Unknown", exit_code |-> code, stdout |-> stdout,
          stderr |-> IF String_from_utf8(stderr) = None
                     THEN <<>> ELSE Unwrap(String_from_utf8(stderr))]

\* A slip that takes every positive exit code below 256 for a rejection.
classify_range(stdout, code, stderr) ==
    IF stdout = <<>> /\ code = SUCCESS_CODE
    THEN [variant |-> "Affirmed"]
    ELSE IF stdout # <<>> /\ code = SUCCESS_CODE
    THEN [variant |-> "AffirmedWithContent", content |-> stdout]
    ELSE IF stdout = <<>> /\ code \in ERROR_CODE_2..ERROR_CODE_1
    THEN [variant |-> "Rejected"]
    ELSE IF stdout # <<>> /\ code \in ERROR_CODE_2..ERROR_CODE_1
    THEN [variant |-> "RejectedWithContent", content |-> stdout]
    ELSE [variant |-> "Unknown", exit_code |-> code, stdout |-> stdout,
          stderr |-> IF String_from_utf8(stderr) = None
                     THEN <<>> ELSE Unwrap(String_from_utf8(stderr))]

\* A slip that drops the content of a rejection.
classify_rejected_bare(stdout, code, stderr) ==
    IF stdout = <<>> /\ code = SUCCESS_CODE
    THEN [variant |-> "Affirmed"]
    ELSE IF stdout # <<>> /\ code = SUCCESS_CODE
    THEN [variant |-> "AffirmedWithContent", content |-> stdout]
    ELSE IF code \in {ERROR_CODE_1, ERROR_CODE_2}
    THEN [variant |-> "Rejected"]
    ELSE [variant |-> "Unknown", exit_code |-> code, stdout |-> stdout,
          stderr |-> IF String_from_utf8(stderr) = None
                     THEN <<>> ELSE Unwrap(String_from_utf8(stderr))]

\* A slip that hands the captured stderr bytes on undecoded.
classify_stderr_raw(stdout, code, stderr) ==
    IF stdout = <<>> /\ code = SUCCESS_CODE
    THEN [variant |-> "Affirmed"]
    ELSE IF stdout # <<>> /\ code = SUCCESS_CODE
    THEN [variant |-> "AffirmedWithContent", content |-> stdout]
    ELSE IF stdout = <<>> /\ code \in {ERROR_CODE_1, ERROR_CODE_2}
    THEN [variant |-> "Rejected"]
    ELSE IF stdout # <<>> /\ code \in {ERROR_CODE_1, ERROR_CODE_2}
    THEN [variant |-> "RejectedWithContent", content |-> stdout]
    ELSE [variant |-> "Unknown", exit_code |-> code, stdout |-> stdout,
          stderr |-> stderr]

\* The match of show on (stdout.is_empty(), code); stderr is the captured
\* bytes, decoded with unwrap_or_default.
classify(stdout, code, stderr) ==
    IF stdout = <<>> /\ code = SUCCESS_CODE
    THEN [variant |-> "Affirmed"]
    ELSE IF stdout # <<>> /\ code = SUCCESS_CODE
    THEN [variant |-> "AffirmedWithContent", content |-> stdout]
    ELSE IF stdout = <<>> /\ code \in {ERROR_CODE_1, ERROR_CODE_2}
    THEN [variant |-> "Rejected"]
    ELSE IF stdout # <<>> /\ code \in {ERROR_CODE_1, ERROR_CODE_2}
    THEN [variant |-> "RejectedWithContent", content |-> stdout]
    ELSE [variant |-> "Unknown", exit_code |-> code, stdout |-> stdout,
          stderr |-> IF String_from_utf8(stderr) = None
                     THEN <<>> ELSE Unwrap(String_from_utf8(stderr))]

\* A slip that decodes stdout as it decodes stderr, with unwrap_or_default,
\* and takes a missing exit code for a failure of the tool.
ZenityDialog_show_lossy(self, resp) ==
    IF resp.spawn = "Err"
    THEN Err(spawn_map_err(resp.kind))
    ELSE Ok(classify(IF String_from_utf8(resp.stdout) = None
                     THEN <<>> ELSE Unwrap(String_from_utf8(resp.stdout)),
                     IF resp.code = None THEN ERROR_CODE_2 ELSE Unwrap(resp.code),
                     resp.stderr))

\* ZenityDialog::show, from what Command::output() returned: resp is a spawn
\* failure of some io::ErrorKind, or the output of the finished process.
ZenityDialog_show(self, resp) ==
    IF resp.spawn = "Err"
    THEN Err(spawn_map_err(resp.kind))
    ELSE IF String_from_utf8(resp.stdout) = None
    THEN Err([variant |-> "InvalidUtf8FromStdout"])
    ELSE IF resp.code = None
    THEN Err([variant |-> "MissingExitCode"])
    ELSE Ok(classify(Unwrap(String_from_utf8(resp.stdout)), Unwrap(resp.code),
                     resp.stderr))

-----------------------------------------------------------------------------
(* The extra-button request (ZenityDialogExtButton) and its outcome type    *)
(* (ZenityOutputExtButton): the request with an extra button label, whose   *)
(* show maps the outcome of the inner request's show.                       *)

\* ZenityDialogExtButton::show after the inner show returned base: a
\* rejection whose content is the label becomes ExtraButtonClicked, anything
\* else (an error too) is passed through field for field.
ExtButton_remap(base, label) ==
    IF /\ base.ok
       /\ base.output.variant = "RejectedWithContent"
       /\ base.output.content = label
    THEN Ok([variant |-> "ExtraButtonClicked", content |-> label])
    ELSE base

-----------------------------------------------------------------------------
(* SpecShow: a request is built, with or without an extra button, and shown *)
(* once; the external tool answers in any way it can.                       *)

IoErrorKinds == {"NotFound", "PermissionDenied", "OutOfMemory"}

StdoutAlphabet == {"M", " ", "\n", "xFF"}

StdoutSamples ==
    BoundedSeq(StdoutAlphabet, MaxStdoutLen)
        \cup {<<"M", "a", "y", "b", "e">>, <<"M", "a", "y", "b", "e", "\n">>, <<"C", "u", "s", "t", "o", "m", " ", "O", "k">>, <<"0", "1", "/", "0", "2", "/", "0", "3">>,
              <<"0", "1", "/", "0", "2", "/", "0", "3", "\n">>, <<"3", "1", "/", "0", "2", "/", "0", "3">>}

StderrSamples == {<<>>, <<"e", "r", "r">>, <<"xFF">>}

ExitCodes == {0, 1, 256, 2, 42, 255, 257, -1}

\* What Command::output() can return.
Responses ==
    {[spawn |-> "Err", kind |-> k] : k \in IoErrorKinds}
        \cup {[spawn |-> "Ok", stdout |-> o, stderr |-> e, code |-> c] :
                o \in StdoutSamples, e \in StderrSamples,
                c \in {None} \cup {Some(x) : x \in ExitCodes}}

ShowKinds ==
    {Info_new, Entry_new, Error_new, Calendar_new, Application_unit("Question")}

\* ZenityDialog::new(application)
InitShow ==
    /\ pc = "building"
    /\ application \in ShowKinds
    /\ argv = None
    /\ chrono \in BOOLEAN
    /\ IdleArg
    /\ IdleRequest
    /\ IdleShow

\* self.show(): one call of Command::output(), no second one.
show ==
    /\ pc = "building"
    /\ \E resp \in Responses :
         IF get_argv_panics(Self)
         THEN /\ pc' = "panicked"
              /\ UNCHANGED <<argv, showVars>>
         ELSE /\ argv' = Some(ZenityDialog_get_argv(Self))
              /\ response' = Some(resp)
              /\ result' = Some(ZenityDialog_show(Self, resp))
              /\ pc' = "done"
              /\ UNCHANGED ext_result
    /\ UNCHANGED <<argVars, application, requestVars, chrono>>

\* show() of the extra-button request: the inner show, then the remapping.
show_ext_button ==
    /\ pc = "building"
    /\ IsSome(extra_button_label)
    /\ \E resp \in Responses :
         IF get_argv_panics(Self)
         THEN /\ pc' = "panicked"
              /\ UNCHANGED <<argv, showVars>>
         ELSE /\ argv' = Some(ZenityDialog_get_argv(Self))
              /\ response' = Some(resp)
              /\ result' = Some(ZenityDialog_show(Self, resp))
              /\ ext_result' =
                   Some(ExtButton_remap(ZenityDialog_show(Self, resp),
                                        Unwrap(extra_button_label)))
              /\ pc' = "done"
    /\ UNCHANGED <<argVars, application, requestVars, chrono>>

NextShow == with_extra_button \/ show \/ show_ext_button

SpecShow == InitShow /\ [][NextShow]_vars

-----------------------------------------------------------------------------
(* Properties of show (SpecShow). *)

\* show has returned for a process that ran, wrote UTF-8 text and exited
\* with a code.
Completed ==
    /\ result # None
    /\ Unwrap(response).spawn = "Ok"
    /\ String_from_utf8(Unwrap(response).stdout) # None
    /\ Unwrap(response).code # None

\* The text the process wrote and the code it exited with.
Stdout == Unwrap(response).stdout

ExitCode == Unwrap(Unwrap(response).code)

\* C1: show classifies on the trimmed stdout: for a stdout that is only
\* whitespace, exit code 0 yields Affirmed with no content and exit code 1 or
\* 256 yields Rejected with no content, as for a zero-length stdout.
C1_ClassifiesTrimmedStdout ==
    (Completed /\ trim(Stdout) = <<>>) =>
        /\ ExitCode = 0 => Unwrap(result) = Ok([variant |-> "Affirmed"])
        /\ ExitCode \in {1, 256} =>
               Unwrap(result) = Ok([variant |-> "Rejected"])

\* C2: for exit code 0 and every stdout, show returns an Affirmed outcome:
\* with no content when stdout is empty, and otherwise with content equal to
\* the dialog kind's parse_output applied to stdout.
C2_AffirmedWithParsedContent ==
    (Completed /\ ExitCode = 0) =>
        /\ Unwrap(result).ok
        /\ Stdout = <<>> => Unwrap(result).output = [variant |-> "Affirmed"]
        /\ Stdout # <<>> =>
             /\ Unwrap(result).output.variant = "AffirmedWithContent"
             /\ application.type # "Application" =>
                  LET parsed == parse(application, Stdout)
                  IN  /\ parsed.ok
                      /\ parsed.type = "String"
                      /\ Unwrap(result).output.content = parsed.value

\* C3: exit codes 1 and 256 are treated identically: for every stdout, show
\* returns for the one what it returns for the other, namely Rejected with
\* no content when stdout is empty and Rejected with the raw stdout as
\* content otherwise.
C3_RejectCodesEquivalent ==
    (Completed /\ ExitCode \in {1, 256}) =>
        LET other == IF ExitCode = 1 THEN 256 ELSE 1
        IN  /\ Unwrap(result) =
                 Ok(IF Stdout = <<>>
                    THEN [variant |-> "Rejected"]
                    ELSE [variant |-> "RejectedWithContent", content |-> Stdout])
            /\ Unwrap(result) =
                 ZenityDialog_show(Self,
                     [Unwrap(response) EXCEPT !.code = Some(other)])

\* C3 witness: show has returned a rejection with content for exit code 1.
C3_Witness ==
    /\ Completed
    /\ pc = "done"
    /\ ExitCode = 1
    /\ Unwrap(result) =
         Ok([variant |-> "RejectedWithContent", content |-> <<"M", "a", "y", "b", "e">>])

\* C4: for every exit code other than 0, 1 and 256 and every stdout, empty
\* or not, show returns Ok(Unknown) with the exit code of the process and the
\* captured stdout and stderr texts, never Affirmed, Rejected or an error.
C4_UnknownForOtherCodes ==
    (Completed /\ ExitCode \notin {0, 1, 256}) =>
        /\ Unwrap(result).ok
        /\ Unwrap(result).output.variant = "Unknown"
        /\ Unwrap(result).output.exit_code = ExitCode
        /\ Unwrap(result).output.stdout = Stdout
        /\ String_from_utf8(Unwrap(response).stderr) # None =>
               Unwrap(result).output.stderr = Unwrap(response).stderr

\* C4 witness: show has returned Unknown for exit code 42 and an empty
\* stdout.
C4_Witness ==
    /\ Completed
    /\ pc = "done"
    /\ ExitCode = 42
    /\ Stdout = <<>>
    /\ Unwrap(result) =
         Ok([variant |-> "Unknown", exit_code |-> 42, stdout |-> <<>>,
             stderr |-> <<"e", "r", "r">>])

\* The base outcome is a rejection whose content is the label.
RejectedWithLabel(base, label) ==
    /\ base.ok
    /\ base.output.variant = "RejectedWithContent"
    /\ base.output.content = label

C10_SpawnFailure ==
    (result # None /\ Unwrap(response).spawn = "Err") =>
        LET kind == Unwrap(response).kind
            r == Unwrap(result)
        IN  /\ pc = "done"
            /\ ~r.ok
            /\ r.error.variant = "ZenityNotInstalled" <=> kind = "NotFound"
            /\ r.error.variant = "UnexpectedIoError" <=> kind # "NotFound"
            /\ r.error.source = kind
            /\ ext_result # None => Unwrap(ext_result) = r

\* C10 witness: show has returned ZenityNotInstalled for a tool that was not
\* found.
C10_Witness ==
    /\ pc = "done"
    /\ response = Some([spawn |-> "Err", kind |-> "NotFound"])
    /\ result =
         Some(Err([variant |-> "ZenityNotInstalled", source |-> "NotFound"]))

-----------------------------------------------------------------------------
(* Properties of show on what the tool left behind (SpecShow). *)

\* show has returned for a process that was spawned.
Ran ==
    /\ result # None
    /\ Unwrap(response).spawn = "Ok"

C11_MissingCodeReached ==
    /\ Ran
    /\ Unwrap(response).stdout = <<"M", "a", "y", "b", "e">>
    /\ Unwrap(response).code = None
    /\ result = Some(Err([variant |-> "MissingExitCode"]))

\* C12: when the exit code is 0, stdout is not empty and the parser of the
\* dialog kind rejects the text, show returns the ParseResultFailure error
\* and not an Affirmed outcome; for every other exit code the parser is not
\* applied and show returns an outcome.
C12_ParseFailurePropagates ==
    (Completed /\ application.type # "Application") =>
        /\ (ExitCode = 0 /\ Stdout # <<>> /\ ~parse(application, Stdout).ok) =>
               Unwrap(result) = Err([variant |-> "ParseResultFailure"])
        /\ ExitCode # 0 => Unwrap(result).ok

-----------------------------------------------------------------------------
(* Properties of the month token (SpecKind). *)

\* The decimal numerals of 1..12, written out.
Ordinals ==
    <<<<"1">>, <<"2">>, <<"3">>, <<"4">>, <<"5">>, <<"6">>, <<"7">>, <<"8">>, <<"9">>, <<"1", "0">>,
      <<"1", "1">>, <<"1", "2">>>>

\* The tokens of a that begin with --month=.
MonthTokens(a) == {i \in 1..Len(a) : starts_with(a[i], <<"-", "-", "m", "o", "n", "t", "h", "=">>)}

\* C13: for each of the twelve Month values the calendar kind renders the
\* month as the one token --month=<n>, n the ordinal of the month: a
\* bijection from January..December onto 1..12, January giving --month=1 and
\* December --month=12, and no month giving 0 or a number above 12.
C13_MonthOrdinal ==
    /\ \A i \in 1..12 : Month_fmt(Months[i]) = Ordinals[i]
    /\ \A i, j \in 1..12 : Month_fmt(Months[i]) = Month_fmt(Months[j]) => i = j
    /\ (/\ pc = "rendered"
        /\ argv # None
        /\ "month" \in DOMAIN application) =>
           LET a == Unwrap(argv)
           IN  IF IsSome(application.month)
               THEN \E i \in 1..12 :
                      /\ Unwrap(application.month) = Months[i]
                      /\ Cardinality(MonthTokens(a)) = 1
                      /\ \A p \in MonthTokens(a) :
                           a[p] = <<"-", "-", "m", "o", "n", "t", "h", "=">> \o Ordinals[i]
               ELSE MonthTokens(a) = {}

\* C13 witness: a calendar configuration with the month December has been
\* rendered and its month token is --month=12.
C13_Witness ==
    /\ pc = "rendered"
    /\ application.type = "Calendar"
    /\ application.month = Some("December")
    /\ argv # None
    /\ \E p \in 1..Len(Unwrap(argv)) : Unwrap(argv)[p] = <<"-", "-", "m", "o", "n", "t", "h", "=", "1", "2">>

-----------------------------------------------------------------------------
(* Properties of the free-form arguments (SpecRequest). *)

\* The token each sample argument stands for.
ExpectedToken(a) ==
    CASE a = Arg_from_name(<<"f", "o", "o">>) -> <<"-", "-", "f", "o", "o">>
      [] a = Arg_from_name(<<"-", "-", "f", "o", "o">>) -> <<"-", "-", "f", "o", "o">>
      [] a = Arg_from_pair(<<"k">>, <<"v">>) -> <<"-", "-", "k", "=", "v">>

RECURSIVE push_all(_, _)
\* with_additional_arg(a1) ... with_additional_arg(an), in that order.
push_all(args, as) ==
    IF as = <<>>
    THEN args
    ELSE push_all(push_additional_arg(args, Head(as)), Tail(as))

\* Names that carry no "--" of their own.
BareNames == {<<"f", "o", "o">>, <<"f">>, <<"-">>, <<"-", "f">>, <<"f", "-", "-">>, <<>>}

\* Every field of the request but the free-form token list.
otherFields ==
    <<pc, application, title, icon, width, height, timeout,
      extra_button_label, modal_hint, argv>>

\* with_additional_args(as) leaves the list as the calls
\* with_additional_arg(as[1]) ... with_additional_arg(as[n]) leave it, and a
\* name with a leading "--" gives the token of the name without it.
C14_ListAgrees ==
    /\ \A as \in BoundedSeq(ArgSamples, MaxExtraArgs - Len(additional_args)) :
         append_additional_args(additional_args, as)
             = push_all(additional_args, as)
    /\ \A n \in BareNames :
         /\ push_additional_arg(additional_args, Arg_from_name(DashDash \o n))
              = push_additional_arg(additional_args, Arg_from_name(n))
         /\ push_additional_arg(additional_args, Arg_from_name(n))
              = additional_args \o <<DashDash \o n>>
         /\ \A v \in {<<>>, <<"v">>} :
              push_additional_arg(additional_args,
                                  Arg_from_pair(DashDash \o n, v))
                = push_additional_arg(additional_args, Arg_from_pair(n, v))

\* A step of with_additional_arg puts one token, the rendering of its
\* argument, at the end of the list; a step of with_additional_args puts
\* what the single calls put; both keep the earlier tokens and every other
\* field.
C14_StepAppends ==
    /\ with_additional_arg =>
         /\ \E a \in ArgSamples :
              additional_args' = additional_args \o <<ExpectedToken(a)>>
         /\ UNCHANGED otherFields
    /\ with_additional_args =>
         /\ \E as \in BoundedSeq(ArgSamples, MaxExtraArgs) :
              additional_args' = push_all(additional_args, as)
         /\ UNCHANGED otherFields
    /\ additional_args' # additional_args =>
         /\ Len(additional_args') > Len(additional_args)
         /\ SubSeq(additional_args', 1, Len(additional_args)) = additional_args

\* C14: each with_additional_arg call appends exactly one token, the Arg
\* rendering of its argument, to the end of the free-form token list and
\* leaves the earlier tokens and all other request fields unchanged;
\* with_additional_args([a1..an]) leaves the request in the state the calls
\* with_additional_arg(a1) ... with_additional_arg(an) leave it in; a name
\* given with a leading "--" produces the token of the name given without.
C14_AdditionalArgs == []C14_ListAgrees /\ [][C14_StepAppends]_vars

\* C14 witness: with_additional_arg("--foo") and then
\* with_additional_arg(("k", "v")) have been called on a request.
C14_Witness ==
    /\ pc = "building"
    /\ additional_args = <<<<"-", "-", "f", "o", "o">>, <<"-", "-", "k", "=", "v">>>>

-----------------------------------------------------------------------------
(* Properties of the timeout token (SpecRequest). *)

\* The whole seconds in a duration, from its length in milliseconds.
FloorSeconds(d) == (d.secs * 1000 + d.nanos \div 1000000) \div 1000

\* The decimal numeral of the whole seconds the sample durations have.
SecondsNumeral(n) ==
    CASE n = 0 -> <<"0">>
      [] n = 1 -> <<"1">>
      [] n = 90 -> <<"9", "0">>

\* The tokens of a that begin with --timeout=.
TimeoutTokens(a) == {i \in 1..Len(a) : starts_with(a[i], <<"-", "-", "t", "i", "m", "e", "o", "u", "t", "=">>)}

\* C15: the timeout token carries the duration as a whole number of
\* seconds, rounded toward zero: with_timeout(d) renders the one token
\* --timeout=floor(d in seconds), so every duration shorter than one second,
\* zero or not, renders as --timeout=0.
C15_TimeoutWholeSeconds ==
    (pc = "rendered" /\ argv # None) =>
        LET a == Unwrap(argv)
        IN  IF IsSome(timeout)
            THEN LET d == Unwrap(timeout)
                 IN  /\ Cardinality(TimeoutTokens(a)) = 1
                     /\ \A p \in TimeoutTokens(a) :
                          /\ a[p] = <<"-", "-", "t", "i", "m", "e", "o", "u", "t", "=">>
                                      \o SecondsNumeral(FloorSeconds(d))
                          /\ d.secs = 0 => a[p] = <<"-", "-", "t", "i", "m", "e", "o", "u", "t", "=", "0">>
            ELSE TimeoutTokens(a) = {}

\* C15 witness: a request with a timeout of 999999999 nanoseconds has been
\* rendered with the token --timeout=0.
C15_Witness ==
    /\ pc = "rendered"
    /\ timeout = Some([secs |-> 0, nanos |-> 999999999])
    /\ argv # None
    /\ \E p \in 1..Len(Unwrap(argv)) : Unwrap(argv)[p] = <<"-", "-", "t", "i", "m", "e", "o", "u", "t", "=", "0">>

-----------------------------------------------------------------------------
(* Properties of show on the captured stderr (SpecShow). *)

\* What show returns for the same process with e on its stderr.
ShowWithStderr(e) ==
    ZenityDialog_show(Self, [Unwrap(response) EXCEPT !.stderr = e])

\* C16: the captured stderr never makes show fail and never changes the
\* outcome variant: for an exit code other than 0, 1 and 256 and a stdout
\* that is text, a stderr that is not valid UTF-8 yields Unknown with the
\* empty string as stderr, not an error, and for the exit codes 0, 1 and
\* 256 the outcome is the same for every stderr.
C16_StderrHarmless ==
    Ran =>
        LET r == Unwrap(result)
            resp == Unwrap(response)
        IN  /\ \A e \in StderrSamples :
                 /\ ShowWithStderr(e).ok = r.ok
                 /\ ~r.ok => ShowWithStderr(e) = r
                 /\ r.ok => ShowWithStderr(e).output.variant = r.output.variant
            /\ Completed =>
                 /\ r.ok
                 /\ ExitCode \in {0, 1, 256} =>
                      \A e \in StderrSamples : ShowWithStderr(e) = r
                 /\ (/\ ExitCode \notin {0, 1, 256}
                     /\ String_from_utf8(resp.stderr) = None) =>
                        r = Ok([variant |-> "Unknown", exit_code |-> ExitCode,
                                stdout |-> Stdout, stderr |-> <<>>])

\* C16 witness: show has returned Unknown with an empty stderr for a process
\* that exited with code 42, wrote "M" and left a byte that is not UTF-8 on
\* its stderr.
C16_Witness ==
    /\ Completed
    /\ pc = "done"
    /\ Unwrap(response).stderr = <<"xFF">>
    /\ result =
         Some(Ok([variant |-> "Unknown", exit_code |-> 42, stdout |-> <<"M">>,
                  stderr |-> <<>>]))

=============================================================================
